---------------------------- MODULE Spec2Model ----------------------------
(***************************************************************************)
(* Gate-level model of the icS repository: the primitive gates of          *)
(* primitives/gates.py, the IC base class of                               *)
(* primitives/integrated_circuit.py and the IC_7447 decoder netlist of     *)
(* IC_7447/bcd_to_seven_seg_converter.py.                                  *)
(*                                                                         *)
(* Python values are modelled as strings so that Boolean and non-Boolean   *)
(* values can sit in the same terminal, pin or attribute.                  *)
(***************************************************************************)
EXTENDS Naturals, Sequences, FiniteSets, TLC

VARIABLES
    \* ---- gate bench (gates.py, gates_tb_gui.py) ----
    chosen_gate,            \* the gate object under test, or NoGate
    gate_out,               \* outcome of the last call on the bench
    gate_call,              \* the last call on the bench and its arguments
    is_single_input_gate,   \* module-global flag written by Gate.check_type
    \* ---- one IC instance ----
    exists,                 \* TRUE iff the constructor produced the object
    cls,                    \* the class of the instance
    number_of_terminals,    \* the pin count the constructor was given
    gate,                   \* self.gate, or NoGate while the attribute is missing
    pwr, gnd,               \* power / ground attributes
    A, B, C, D,             \* BCD input attributes
    dicts,                  \* heap of pin dictionaries (dict objects)
    list_of_pins,           \* self.list_of_pins: a reference into dicts
    gates,                  \* the gate attributes AA..EH of the instance
    nets,                   \* the net attributes lineA..lineJ
    call,                   \* the last call on the instance and its arguments
    result,                 \* how the last call ended
    returned,               \* references to dicts handed out by process()
    \* ---- a pair of IC_7447 instances evaluated stage by stage ----
    insts                   \* instance number -> its attributes; <<>> when unused

gateVars == <<chosen_gate, gate_out, gate_call, is_single_input_gate>>
icVars   == <<exists, cls, number_of_terminals, gate, pwr, gnd, A, B, C, D, dicts, list_of_pins,
              gates, nets, call, result, returned, insts>>
vars     == <<chosen_gate, gate_out, gate_call, is_single_input_gate,
              exists, cls, number_of_terminals, gate, pwr, gnd, A, B, C, D, dicts, list_of_pins, gates, nets,
              call, result, returned, insts>>

---------------------------------------------------------------------------
(* Python values *)

LOW  == "LOW"       \* False
HIGH == "HIGH"      \* True
NONE == "None"      \* None   (not a bool, falsy)
INT1 == "int1"      \* 1      (not a bool, truthy)

Bool   == {LOW, HIGH}
PyVal  == {LOW, HIGH, NONE, INT1}

TypeError == "TypeError"
UNSET     == "unset"        \* an attribute or global not assigned yet

\* type(v) is type(bool())
IsBool(v) == v \in Bool

\* bool(v)
Truth(v) == v \in {HIGH, INT1}

FromBool(b) == IF b THEN HIGH ELSE LOW

---------------------------------------------------------------------------
(* primitives/gates.py *)

TwoInputKinds == {"OrGate", "AndGate", "NOrGate", "NAndGate", "XNOrGate", "XNAndGate"}
OneInputKinds == {"NotGate", "Buffer"}
GateKinds     == TwoInputKinds \cup OneInputKinds

\* Gate.check_type with every value accepted: the type test is dropped.
check_type_lax(terminal_1, terminal_2) ==
    IF terminal_2 # NONE THEN <<TRUE, TRUE>> ELSE <<TRUE>>

\* Gate.check_type: the returned tuple (two terminals) or single bool (one).
check_type(terminal_1, terminal_2) ==
    IF terminal_2 # NONE
    THEN <<IsBool(terminal_1), IsBool(terminal_2)>>
    ELSE <<IsBool(terminal_1)>>

\* Gate.check_type: the value it leaves in the global is_single_input_gate.
check_type_flag(terminal_2) == FromBool(terminal_2 = NONE)

\* Gate.__init__: TRUE iff the terminals pass, else TypeError is raised.
Gate_init(termi1, termi2) == check_type(termi1, termi2) = <<TRUE, TRUE>>

\* OrGate.output computing exclusive OR
OrGate_output_xor(termi1, termi2) ==
    IF check_type(termi1, termi2) = <<TRUE, TRUE>>
    THEN (IF Truth(termi1) # Truth(termi2) THEN HIGH ELSE LOW)
    ELSE TypeError

OrGate_output(termi1, termi2) ==
    IF check_type(termi1, termi2) = <<TRUE, TRUE>>
    THEN (IF Truth(termi1) \/ Truth(termi2) THEN HIGH ELSE LOW)
    ELSE TypeError

\* AndGate.output computing OR
AndGate_output_or(termi1, termi2) == OrGate_output(termi1, termi2)

AndGate_output(termi1, termi2) ==
    IF check_type(termi1, termi2) = <<TRUE, TRUE>>
    THEN (IF Truth(termi1) /\ Truth(termi2) THEN HIGH ELSE LOW)
    ELSE TypeError

NotGate_output(termi1) ==
    IF check_type(termi1, NONE) = <<TRUE>>
    THEN (IF Truth(termi1) THEN FromBool(~TRUE) ELSE FromBool(~FALSE))
    ELSE TypeError

\* Buffer.output inverting its terminal
Buffer_output_inverting(termi1) == NotGate_output(termi1)

Buffer_output(termi1) ==
    IF check_type(termi1, NONE) = <<TRUE>>
    THEN (IF Truth(termi1) THEN HIGH ELSE LOW)
    ELSE TypeError

\* NOrGate.output computing OR: the inversion is lost.
NOrGate_output_noinv(termi1, termi2) == OrGate_output(termi1, termi2)

NOrGate_output(termi1, termi2) ==
    IF check_type(termi1, termi2) = <<TRUE, TRUE>>
    THEN (IF Truth(termi1) \/ Truth(termi2) THEN FromBool(~TRUE) ELSE FromBool(~FALSE))
    ELSE TypeError

\* NAndGate.output without the type check: not (termi1 and termi2)
NAndGate_output_unchecked(termi1, termi2) ==
    IF Truth(termi1) /\ Truth(termi2) THEN LOW ELSE HIGH

NAndGate_output(termi1, termi2) ==
    IF check_type(termi1, termi2) = <<TRUE, TRUE>>
    THEN (IF Truth(termi1) /\ Truth(termi2) THEN LOW ELSE HIGH)
    ELSE TypeError

XNOrGate_output(termi1, termi2) ==
    IF check_type(termi1, termi2) = <<TRUE, TRUE>>
    THEN (IF Truth(termi1) = Truth(termi2) THEN HIGH ELSE LOW)
    ELSE TypeError

\* XNAndGate.output "corrected" to the complement of XNOR
XNAndGate_output_xor(termi1, termi2) ==
    IF check_type(termi1, termi2) = <<TRUE, TRUE>>
    THEN (IF Truth(termi1) = Truth(termi2) THEN LOW ELSE HIGH)
    ELSE TypeError

XNAndGate_output(termi1, termi2) ==
    IF check_type(termi1, termi2) = <<TRUE, TRUE>>
    THEN (IF Truth(termi1) /\ Truth(termi2) THEN LOW ELSE HIGH)
    ELSE TypeError

\* g.output() with the one-input classes testing both terminals
output_both_checked(g) ==
    CASE g.kind = "OrGate"    -> OrGate_output(g.termi1, g.termi2)
      [] g.kind = "AndGate"   -> AndGate_output(g.termi1, g.termi2)
      [] g.kind = "NotGate"   -> IF IsBool(g.termi2) THEN NotGate_output(g.termi1)
                                                      ELSE TypeError
      [] g.kind = "Buffer"    -> IF IsBool(g.termi2) THEN Buffer_output(g.termi1)
                                                      ELSE TypeError
      [] g.kind = "NOrGate"   -> NOrGate_output(g.termi1, g.termi2)
      [] g.kind = "NAndGate"  -> NAndGate_output(g.termi1, g.termi2)
      [] g.kind = "XNOrGate"  -> XNOrGate_output(g.termi1, g.termi2)
      [] g.kind = "XNAndGate" -> XNAndGate_output(g.termi1, g.termi2)

\* g.output() dispatched on the class of g
output(g) ==
    CASE g.kind = "OrGate"    -> OrGate_output(g.termi1, g.termi2)
      [] g.kind = "AndGate"   -> AndGate_output(g.termi1, g.termi2)
      [] g.kind = "NotGate"   -> NotGate_output(g.termi1)
      [] g.kind = "Buffer"    -> Buffer_output(g.termi1)
      [] g.kind = "NOrGate"   -> NOrGate_output(g.termi1, g.termi2)
      [] g.kind = "NAndGate"  -> NAndGate_output(g.termi1, g.termi2)
      [] g.kind = "XNOrGate"  -> XNOrGate_output(g.termi1, g.termi2)
      [] g.kind = "XNAndGate" -> XNAndGate_output(g.termi1, g.termi2)

\* the value g.output() leaves in is_single_input_gate
output_flag(g) ==
    IF g.kind \in OneInputKinds THEN check_type_flag(NONE) ELSE check_type_flag(g.termi2)

\* A constructed gate object
NewGate(kind, termi1, termi2) == [kind |-> kind, termi1 |-> termi1, termi2 |-> termi2]

NoGate == [kind |-> "none", termi1 |-> UNSET, termi2 |-> UNSET]

---------------------------------------------------------------------------
(* Gate bench: one gate object that is constructed, re-wired and evaluated, *)
(* as MainWindow.which_gate / MainWindow.UI do.                             *)

\* gate_call records the call, the gate's class and terminals as the call
\* found or left them, and in `after` the call that preceded it.
GateIdle == [op |-> "none", kind |-> "none", termi1 |-> UNSET, termi2 |-> UNSET,
             after |-> "none"]

\* <Variant>(1, termi1, termi2): the one-input classes pass termi1 only, so
\* Gate.__init__ sees the default False for termi2.
Construct(kind, t1, t2) ==
    LET termi2 == IF kind \in OneInputKinds THEN LOW ELSE t2
        ok     == Gate_init(t1, termi2)
    IN  /\ chosen_gate' = IF ok THEN NewGate(kind, t1, termi2) ELSE NoGate
        /\ gate_out' = IF ok THEN "constructed" ELSE TypeError
        /\ gate_call' = [op |-> "new", kind |-> kind, termi1 |-> t1, termi2 |-> termi2,
                         after |-> gate_call.op]
        /\ is_single_input_gate' = check_type_flag(termi2)
        /\ UNCHANGED icVars

\* An assignment that output() does not see: the gate keeps evaluating the
\* terminals it was built with.
Assign_stale(n, v) ==
    /\ chosen_gate # NoGate
    /\ chosen_gate' = chosen_gate
    /\ gate_call' = [op |-> "assign", kind |-> chosen_gate.kind,
                     termi1 |-> IF n = 1 THEN v ELSE chosen_gate.termi1,
                     termi2 |-> IF n = 2 THEN v ELSE chosen_gate.termi2,
                     after |-> gate_call.op]
    /\ gate_out' = "assigned"
    /\ UNCHANGED <<is_single_input_gate, icVars>>

\* gate.termi1 = v  /  gate.termi2 = v   (plain attribute assignment, unchecked)
Assign(n, v) ==
    /\ chosen_gate # NoGate
    /\ chosen_gate' = IF n = 1 THEN [chosen_gate EXCEPT !.termi1 = v]
                               ELSE [chosen_gate EXCEPT !.termi2 = v]
    /\ gate_call' = [op |-> "assign", kind |-> chosen_gate.kind,
                     termi1 |-> chosen_gate'.termi1, termi2 |-> chosen_gate'.termi2,
                     after |-> gate_call.op]
    /\ gate_out' = "assigned"
    /\ UNCHANGED <<is_single_input_gate, icVars>>

\* gate.output()
Output ==
    /\ chosen_gate # NoGate
    /\ gate_out' = output(chosen_gate)
    /\ gate_call' = [op |-> "output", kind |-> chosen_gate.kind,
                     termi1 |-> chosen_gate.termi1, termi2 |-> chosen_gate.termi2,
                     after |-> gate_call.op]
    /\ is_single_input_gate' = output_flag(chosen_gate)
    /\ UNCHANGED <<chosen_gate, icVars>>

InitGateBench ==
    /\ chosen_gate = NoGate
    /\ gate_out = "none"
    /\ gate_call = GateIdle
    /\ is_single_input_gate = UNSET

NextGate ==
    \/ \E kind \in GateKinds, t1 \in PyVal, t2 \in PyVal : Construct(kind, t1, t2)
    \/ \E n \in {1, 2}, v \in PyVal : Assign(n, v)
    \/ Output

---------------------------------------------------------------------------
(* primitives/integrated_circuit.py *)

\* number_of_terminals as the test bench passes it
Terminals == 16

PinId == <<"Pin1", "Pin2", "Pin3", "Pin4", "Pin5", "Pin6", "Pin7", "Pin8",
           "Pin9", "Pin10", "Pin11", "Pin12", "Pin13", "Pin14", "Pin15", "Pin16",
           "Pin17", "Pin18", "Pin19", "Pin20">>

\* bool(type(v)): a class object is always truthy
TypeIsTruthy(v) == TRUE

\* IC.typechecker: True if type(para1) and type(para2) == bool else False
typechecker(para1, para2) == TypeIsTruthy(para1) /\ IsBool(para2)

\* IC.terminal_identify: the dictionary it fills, Pin1..PinN all False
terminal_identify(n) ==
    [p \in {PinId[x] : x \in 1..n} |-> LOW]

\* IC.terminal_identify on an instance whose dictionary is d: the loop
\* assigns False to Pin1..PinN in d itself, whatever other keys d holds.
terminal_identify_on(d, n) ==
    LET ids == {PinId[x] : x \in 1..n}
    IN  [k \in DOMAIN d \cup ids |-> IF k \in ids THEN LOW ELSE d[k]]

\* `self.pwr and not self.gnd` used as a condition
Powered(p, g) == Truth(p) /\ ~Truth(g)

---------------------------------------------------------------------------
(* IC_7447/bcd_to_seven_seg_converter.py: the netlist as statement lists *)

\* IC_7447.interGates: attribute name and class, in declaration order
GateDecl == <<
    <<"AA", "NAndGate">>, <<"AB", "NAndGate">>, <<"AC", "NAndGate">>,
    <<"AD", "NotGate">>, <<"AE", "NotGate">>,
    <<"BA", "NotGate">>,
    <<"BB1_2", "NOrGate">>, <<"BB3", "NOrGate">>, <<"BB4", "NOrGate">>,
    <<"BB5", "NOrGate">>, <<"BB", "NOrGate">>,
    <<"BC", "NotGate">>,
    <<"CA", "NAndGate">>, <<"CB", "NAndGate">>, <<"CC", "NAndGate">>,
    <<"CD", "NAndGate">>,
    <<"DA", "AndGate">>, <<"DB", "AndGate">>,
    <<"DC1_2", "AndGate">>, <<"DC3", "AndGate">>, <<"DC", "AndGate">>,
    <<"DD", "AndGate">>,
    <<"DE1_2", "AndGate">>, <<"DE", "AndGate">>,
    <<"DF1_2", "AndGate">>, <<"DF", "AndGate">>,
    <<"DH", "AndGate">>,
    <<"DI1_2", "AndGate">>, <<"DI", "AndGate">>,
    <<"DJ1_2", "AndGate">>, <<"DJ", "AndGate">>,
    <<"DK1_2", "AndGate">>, <<"DK", "AndGate">>,
    <<"DL1_2", "AndGate">>, <<"DL", "AndGate">>,
    <<"DM", "Buffer">>,
    <<"DP", "AndGate">>, <<"DQ", "AndGate">>, <<"DV", "AndGate">>,
    <<"DW1_2", "AndGate">>, <<"DW", "AndGate">>,
    <<"DX1_2", "AndGate">>, <<"DX", "AndGate">>,
    <<"DY1_2", "AndGate">>, <<"DY3", "AndGate">>, <<"DY", "AndGate">>,
    <<"EA1_2", "OrGate">>, <<"EA", "OrGate">>,
    <<"EB1_2", "OrGate">>, <<"EB", "OrGate">>,
    <<"EC", "OrGate">>,
    <<"ED1_2", "OrGate">>, <<"ED", "OrGate">>,
    <<"EE", "OrGate">>,
    <<"EF1_2", "OrGate">>, <<"EF", "OrGate">>,
    <<"EH", "OrGate">> >>

GateNames == {GateDecl[i][1] : i \in 1..Len(GateDecl)}
NetNames  == {"lineA", "lineB", "lineC", "lineD", "lineE",
              "lineF", "lineG", "lineH", "lineI", "lineJ"}

\* IC_7447.interGates: every gate constructed with its default terminals
interGates ==
    [g \in GateNames |->
        NewGate(GateDecl[CHOOSE i \in 1..Len(GateDecl) : GateDecl[i][1] = g][2], LOW, LOW)]

\* the value interGates leaves in is_single_input_gate: its last constructor
\* call is OrGate(7), whose check_type sees termi2 = False
interGates_flag == check_type_flag(LOW)

\* Statement forms of inputs(), setUP(), outputs() and process()
PinAttr(pin, attr)  == [op |-> "pin_attr",  dst |-> pin, t |-> 0, src |-> attr] \* list_of_pins[pin] = self.attr
PinConst(pin, v)    == [op |-> "pin_const", dst |-> pin, t |-> 0, src |-> v]    \* list_of_pins[pin] = v
Bind(g, t, pin)     == [op |-> "bind",      dst |-> g,   t |-> t, src |-> pin]  \* g.termi<t> = list_of_pins[pin]
Wire(g, t, src)     == [op |-> "wire",      dst |-> g,   t |-> t, src |-> src]  \* g.termi<t> = src.output()
Net(n, src)         == [op |-> "net",       dst |-> n,   t |-> 0, src |-> src]  \* self.n = src.output()
Fan(g, t, n)        == [op |-> "fan",       dst |-> g,   t |-> t, src |-> n]    \* g.termi<t> = self.n
Drive(pin, src)     == [op |-> "drive",     dst |-> pin, t |-> 0, src |-> src]  \* list_of_pins[pin] = src.output()

\* LT written as the integer 1 instead of a bool
LT_level_int == INT1

\* The levels inputs() writes to the control pins
LT_level  == LOW
RBI_level == LOW

\* IC_7447.inputs with the BI/RBO line (Pin4) written, at its inactive level
inputs_stmts_bi(lt, rbi) == <<
    PinAttr("Pin7", "A"), PinAttr("Pin1", "B"), PinAttr("Pin2", "C"), PinAttr("Pin6", "D"),
    PinConst("Pin3", lt), PinConst("Pin5", rbi), PinConst("Pin4", HIGH),
    Bind("AA", 1, "Pin7"), Bind("AB", 1, "Pin1"), Bind("AC", 1, "Pin2"),
    Bind("AD", 1, "Pin6"), Bind("AE", 1, "Pin3"),
    Bind("BB1_2", 1, "Pin3"), Bind("BB1_2", 2, "Pin5"), Bind("BC", 1, "Pin5") >>

\* IC_7447.inputs without the writes of lines 394-395: Pin3 and Pin5 keep
\* whatever the pin map held before the evaluation
inputs_stmts_keep_controls(lt, rbi) == <<
    PinAttr("Pin7", "A"), PinAttr("Pin1", "B"), PinAttr("Pin2", "C"), PinAttr("Pin6", "D"),
    Bind("AA", 1, "Pin7"), Bind("AB", 1, "Pin1"), Bind("AC", 1, "Pin2"),
    Bind("AD", 1, "Pin6"), Bind("AE", 1, "Pin3"),
    Bind("BB1_2", 1, "Pin3"), Bind("BB1_2", 2, "Pin5"), Bind("BC", 1, "Pin5") >>

\* IC_7447.inputs, with the two control levels it writes as parameters
inputs_stmts(lt, rbi) == <<
    PinAttr("Pin7", "A"), PinAttr("Pin1", "B"), PinAttr("Pin2", "C"), PinAttr("Pin6", "D"),
    PinConst("Pin3", lt), PinConst("Pin5", rbi),
    Bind("AA", 1, "Pin7"), Bind("AB", 1, "Pin1"), Bind("AC", 1, "Pin2"),
    Bind("AD", 1, "Pin6"), Bind("AE", 1, "Pin3"),
    Bind("BB1_2", 1, "Pin3"), Bind("BB1_2", 2, "Pin5"), Bind("BC", 1, "Pin5") >>

\* Line A and Line B with BB's last terminal taken from BC, the inverter
\* of RBI, instead of AE
setUP_lineAB_bc == <<
    Net("lineA", "AE"),
    Fan("AA", 2, "lineA"), Fan("AB", 2, "lineA"), Fan("AC", 2, "lineA"),
    Fan("BB", 1, "lineA"), Fan("DY1_2", 1, "lineA"),
    Wire("BB3", 1, "BB1_2"), Wire("BB3", 2, "AD"),
    Wire("BB4", 1, "BB3"),   Wire("BB4", 2, "AC"),
    Wire("BB5", 1, "BB4"),   Wire("BB5", 2, "AB"),
    Wire("BB", 1, "BB5"),    Wire("BB", 2, "BC"),
    Wire("BA", 1, "BB"),
    Net("lineB", "BA"),
    Fan("CA", 2, "lineB"), Fan("CB", 2, "lineB"), Fan("CC", 2, "lineB"),
    Fan("CD", 2, "lineB") >>

\* IC_7447.setUP, Line A and Line B up to the capture of lineB
setUP_lineAB == <<
    Net("lineA", "AE"),
    Fan("AA", 2, "lineA"), Fan("AB", 2, "lineA"), Fan("AC", 2, "lineA"),
    Fan("BB", 1, "lineA"), Fan("DY1_2", 1, "lineA"),
    Wire("BB3", 1, "BB1_2"), Wire("BB3", 2, "AD"),
    Wire("BB4", 1, "BB3"),   Wire("BB4", 2, "AC"),
    Wire("BB5", 1, "BB4"),   Wire("BB5", 2, "AB"),
    Wire("BB", 1, "BB5"),    Wire("BB", 2, "AE"),
    Wire("BA", 1, "BB"),
    Net("lineB", "BA"),
    Fan("CA", 2, "lineB"), Fan("CB", 2, "lineB"), Fan("CC", 2, "lineB"),
    Fan("CD", 2, "lineB") >>

\* The reassignment aimed at gate AB, whose output() is called afterwards
setUP_feedback_ab == << Fan("AB", 1, "lineB") >>

\* IC_7447.setUP: self.BA.termi1 = self.lineB
setUP_feedback == << Fan("BA", 1, "lineB") >>

\* IC_7447.setUP, Line C to Line J and the sub outputs
setUP_lineCJ == <<
    Wire("CB", 1, "AB"),
    Net("lineC", "CB"),
    Fan("DA", 1, "lineC"), Fan("DD", 1, "lineC"), Fan("DF1_2", 2, "lineC"),
    Fan("DI1_2", 2, "lineC"), Fan("DL1_2", 2, "lineC"), Fan("DQ", 2, "lineC"),
    Fan("DV", 1, "lineC"), Fan("DX1_2", 2, "lineC"),
    Wire("CD", 1, "AD"),
    Net("lineD", "CD"),
    Fan("DA", 2, "lineD"), Fan("DD", 2, "lineD"), Fan("DH", 2, "lineD"),
    Net("lineE", "AA"),
    Fan("DB", 1, "lineE"), Fan("DF", 2, "lineE"), Fan("DI", 2, "lineE"),
    Fan("DK", 2, "lineE"), Fan("CA", 1, "lineE"),
    Wire("CC", 1, "AC"),
    Net("lineF", "CC"),
    Fan("DB", 2, "lineF"), Fan("DE1_2", 1, "lineF"), Fan("DF1_2", 1, "lineF"),
    Fan("DH", 1, "lineF"), Fan("DK1_2", 1, "lineF"), Fan("DL1_2", 1, "lineF"),
    Fan("DP", 2, "lineF"), Fan("DX1_2", 1, "lineF"),
    Net("lineG", "CA"),
    Fan("DC", 2, "lineG"), Fan("DE", 2, "lineG"), Fan("DJ", 2, "lineG"),
    Fan("DL", 2, "lineG"), Fan("DQ", 1, "lineG"), Fan("DW", 2, "lineG"),
    Fan("DX", 2, "lineG"), Fan("DM", 1, "lineG"),
    Net("lineH", "AB"),
    Fan("DC3", 2, "lineH"), Fan("DE1_2", 2, "lineH"), Fan("DJ1_2", 2, "lineH"),
    Fan("DK1_2", 2, "lineH"), Fan("DP", 1, "lineH"), Fan("DY", 2, "lineH"),
    Net("lineI", "AC"),
    Fan("DC1_2", 2, "lineI"), Fan("DI1_2", 1, "lineI"), Fan("DJ1_2", 1, "lineI"),
    Fan("DV", 2, "lineI"), Fan("DW1_2", 2, "lineI"), Fan("DY3", 2, "lineI"),
    Net("lineJ", "AD"),
    Fan("DC1_2", 1, "lineJ"), Fan("DW1_2", 1, "lineJ"), Fan("DY1_2", 2, "lineJ"),
    Wire("DC3", 1, "DC1_2"), Wire("DC", 1, "DC3"),
    Wire("DE", 1, "DE1_2"),  Wire("DF", 1, "DF1_2"),
    Wire("DI", 1, "DI1_2"),  Wire("DJ", 1, "DJ1_2"),
    Wire("DK", 1, "DK1_2"),  Wire("DL", 1, "DL1_2"),
    Wire("DW", 1, "DW1_2"),  Wire("DX", 1, "DX1_2"),
    Wire("DY3", 1, "DY1_2"), Wire("DY", 1, "DY3") >>

\* IC_7447.setUP
setUP_stmts == setUP_lineAB \o setUP_feedback \o setUP_lineCJ

\* IC_7447.outputs
outputs_stmts == <<
    Wire("EA1_2", 1, "DC"), Wire("EA1_2", 2, "DB"),
    Wire("EA", 1, "EA1_2"), Wire("EA", 2, "DA"),
    Wire("EB1_2", 1, "DF"), Wire("EB1_2", 2, "DE"),
    Wire("EB", 1, "EB1_2"), Wire("EB", 2, "DD"),
    Wire("EC", 1, "DH"),    Wire("EC", 2, "DI"),
    Wire("ED1_2", 1, "DL"), Wire("ED1_2", 2, "DK"),
    Wire("ED", 1, "ED1_2"), Wire("ED", 2, "DJ"),
    Wire("EE", 1, "DM"),    Wire("EE", 2, "DP"),
    Wire("EF1_2", 1, "DW"), Wire("EF1_2", 2, "DV"),
    Wire("EF", 1, "EF1_2"), Wire("EF", 2, "DQ"),
    Wire("EH", 1, "DX"),    Wire("EH", 2, "DY") >>

\* The final pin writes with segments f and g exchanged
drive_stmts_fg_swapped == <<
    Drive("Pin13", "EA"), Drive("Pin12", "EB"), Drive("Pin11", "EC"),
    Drive("Pin10", "ED"), Drive("Pin9", "EE"),  Drive("Pin15", "EH"),
    Drive("Pin14", "EF") >>

\* IC_7447.process: the final pin writes
drive_stmts == <<
    Drive("Pin13", "EA"), Drive("Pin12", "EB"), Drive("Pin11", "EC"),
    Drive("Pin10", "ED"), Drive("Pin9", "EE"),  Drive("Pin15", "EF"),
    Drive("Pin14", "EH") >>

\* The gate whose output() each net captures
NetSource ==
    [n \in NetNames |->
        setUP_stmts[CHOOSE i \in 1..Len(setUP_stmts) :
                        setUP_stmts[i].op = "net" /\ setUP_stmts[i].dst = n].src]

---------------------------------------------------------------------------
(* Statement-by-statement execution of the netlist *)

\* g.termi<t> = v
SetTermi(gs, g, t, v) ==
    IF t = 1 THEN [gs EXCEPT ![g].termi1 = v] ELSE [gs EXCEPT ![g].termi2 = v]

\* d[k] = v on a dictionary: the key is added when it is missing
Put(d, k, v) == [x \in DOMAIN d \cup {k} |-> IF x = k THEN v ELSE d[x]]

\* One statement, on the evaluation state
\*   s = [pins, gates, nets, flag, err]
\* with self the BCD attributes. A TypeError raised by output() ends the
\* evaluation: the assignment does not happen and nothing after it runs.
Exec(s, self, st) ==
    IF s.err THEN s
    ELSE CASE st.op = "pin_attr"  -> [s EXCEPT !.pins = Put(@, st.dst, self[st.src])]
           [] st.op = "pin_const" -> [s EXCEPT !.pins = Put(@, st.dst, st.src)]
           [] st.op = "bind" ->
                [s EXCEPT !.gates = SetTermi(s.gates, st.dst, st.t, s.pins[st.src])]
           [] st.op = "fan" ->
                [s EXCEPT !.gates = SetTermi(s.gates, st.dst, st.t, s.nets[st.src])]
           [] st.op = "wire" ->
                LET v == output(s.gates[st.src])
                    f == output_flag(s.gates[st.src])
                IN  IF v = TypeError
                    THEN [s EXCEPT !.err = TRUE, !.flag = f]
                    ELSE [s EXCEPT !.gates = SetTermi(s.gates, st.dst, st.t, v),
                                   !.flag = f]
           [] st.op = "net" ->
                LET v == output(s.gates[st.src])
                    f == output_flag(s.gates[st.src])
                IN  IF v = TypeError
                    THEN [s EXCEPT !.err = TRUE, !.flag = f]
                    ELSE [s EXCEPT !.nets[st.dst] = v, !.flag = f]
           [] st.op = "drive" ->
                LET v == output(s.gates[st.src])
                    f == output_flag(s.gates[st.src])
                IN  IF v = TypeError
                    THEN [s EXCEPT !.err = TRUE, !.flag = f]
                    ELSE [s EXCEPT !.pins = Put(@, st.dst, v), !.flag = f]

\* The statements stmts[lo..hi] in order. The range is split in halves and
\* the first half is finished before the second starts; once a statement
\* has raised, the rest is skipped.
RECURSIVE Run(_, _, _, _, _)
Run(s, self, stmts, lo, hi) ==
    IF lo > hi THEN s
    ELSE IF lo = hi THEN Exec(s, self, stmts[lo])
    ELSE LET half == Run(s, self, stmts, lo, (lo + hi) \div 2)
         IN  IF half.err THEN half
             ELSE Run(half, self, stmts, ((lo + hi) \div 2) + 1, hi)

RunAll(s, self, stmts) == Run(s, self, stmts, 1, Len(stmts))

\* The powered branch of IC_7447.process on the pin dictionary `pins`, given
\* the control levels inputs() writes: interGates(); inputs(); setUP();
\* outputs(); the seven final pin writes.
Evaluate(pins, oldnets, self, lt, rbi) ==
    LET s0 == [pins  |-> pins,
               gates |-> interGates,
               nets  |-> oldnets,
               flag  |-> interGates_flag,
               err   |-> FALSE]
        s1 == RunAll(s0, self, inputs_stmts(lt, rbi))
        s2 == IF s1.err THEN s1 ELSE RunAll(s1, self, setUP_stmts)
        s3 == IF s2.err THEN s2 ELSE RunAll(s2, self, outputs_stmts)
    IN  IF s3.err THEN s3 ELSE RunAll(s3, self, drive_stmts)

\* IC_7447.setUP with the statement of line 243 left out
setUP_without_feedback == setUP_lineAB \o setUP_lineCJ

\* The powered branch of IC_7447.process with `setup` in the place of setUP()
EvaluateWith(pins, oldnets, self, lt, rbi, setup) ==
    LET s0 == [pins  |-> pins,
               gates |-> interGates,
               nets  |-> oldnets,
               flag  |-> interGates_flag,
               err   |-> FALSE]
        s1 == RunAll(s0, self, inputs_stmts(lt, rbi))
        s2 == IF s1.err THEN s1 ELSE RunAll(s1, self, setup)
        s3 == IF s2.err THEN s2 ELSE RunAll(s2, self, outputs_stmts)
    IN  IF s3.err THEN s3 ELSE RunAll(s3, self, drive_stmts)

---------------------------------------------------------------------------
(* One IC_7447 instance and its callers *)

BCDValues == Bool

NoGates == [g \in GateNames |-> NoGate]
NoNets  == [n \in NetNames |-> UNSET]
Self    == [A |-> A, B |-> B, C |-> C, D |-> D]

\* IC_7447(pwr, gnd, n, D, C, B, A): IC.__init__ raises TypeError when
\* typechecker fails, and then no object exists.
NewN(n, p, g, d, c, b, a) ==
    LET ok == typechecker(p, g)
    IN  /\ exists = ok
        /\ cls = "IC_7447"
        /\ number_of_terminals = n
        /\ gate = NoGate
        /\ pwr = IF ok THEN p ELSE UNSET
        /\ gnd = IF ok THEN g ELSE UNSET
        /\ A = IF ok THEN a ELSE UNSET
        /\ B = IF ok THEN b ELSE UNSET
        /\ C = IF ok THEN c ELSE UNSET
        /\ D = IF ok THEN d ELSE UNSET
        /\ dicts = IF ok THEN <<terminal_identify(n)>> ELSE <<>>
        /\ list_of_pins = IF ok THEN 1 ELSE 0
        /\ gates = NoGates
        /\ nets = NoNets
        /\ call = [op |-> "new", a1 |-> p, a2 |-> g]
        /\ result = IF ok THEN "ok" ELSE TypeError
        /\ returned = {}

\* The decoder as its test bench builds it, with 16 terminals
New(p, g, d, c, b, a) == NewN(Terminals, p, g, d, c, b, a)

\* IC_7447.process whose unpowered branch clears the pin map
process_with_reset(lt, rbi) ==
    /\ exists
    /\ cls = "IC_7447"
    /\ call' = [op |-> "process", a1 |-> "-", a2 |-> "-"]
    /\ IF Powered(pwr, gnd)
       THEN LET s == Evaluate(dicts[list_of_pins], nets, Self, lt, rbi)
            IN  /\ dicts' = [dicts EXCEPT ![list_of_pins] = s.pins]
                /\ gates' = s.gates
                /\ nets' = s.nets
                /\ is_single_input_gate' = s.flag
                /\ result' = IF s.err THEN TypeError ELSE "ok"
                /\ returned' = IF s.err THEN returned ELSE returned \cup {list_of_pins}
       ELSE /\ result' = "ok"
            /\ returned' = returned \cup {list_of_pins}
            /\ dicts' = [dicts EXCEPT ![list_of_pins] =
                            [k \in DOMAIN @ |-> LOW]]
            /\ UNCHANGED <<gates, nets, is_single_input_gate>>
    /\ UNCHANGED <<insts, exists, cls, number_of_terminals, gate, pwr, gnd, A, B, C, D, list_of_pins,
                   chosen_gate, gate_out, gate_call>>

\* IC_7447.process, with lt and rbi the levels inputs() writes to Pin3 / Pin5
process_with(lt, rbi) ==
    /\ exists
    /\ cls = "IC_7447"
    /\ call' = [op |-> "process", a1 |-> "-", a2 |-> "-"]
    /\ IF Powered(pwr, gnd)
       THEN LET s == Evaluate(dicts[list_of_pins], nets, Self, lt, rbi)
            IN  /\ dicts' = [dicts EXCEPT ![list_of_pins] = s.pins]
                /\ gates' = s.gates
                /\ nets' = s.nets
                /\ is_single_input_gate' = s.flag
                /\ result' = IF s.err THEN TypeError ELSE "ok"
                /\ returned' = IF s.err THEN returned ELSE returned \cup {list_of_pins}
       ELSE /\ result' = "ok"
            /\ returned' = returned \cup {list_of_pins}
            /\ UNCHANGED <<dicts, gates, nets, is_single_input_gate>>
    /\ UNCHANGED <<insts, exists, cls, number_of_terminals, gate, pwr, gnd, A, B, C, D, list_of_pins,
                   chosen_gate, gate_out, gate_call>>

\* IC_7447.process
process == process_with(LT_level, RBI_level)

\* A caller changes one BCD input attribute: ic.A = v, ...
SetInput(name, v) ==
    /\ exists
    /\ cls = "IC_7447"
    /\ A' = IF name = "A" THEN v ELSE A
    /\ B' = IF name = "B" THEN v ELSE B
    /\ C' = IF name = "C" THEN v ELSE C
    /\ D' = IF name = "D" THEN v ELSE D
    /\ call' = [op |-> "set_input", a1 |-> "-", a2 |-> "-"]
    /\ result' = "ok"
    /\ UNCHANGED <<insts, exists, cls, number_of_terminals, gate, pwr, gnd, dicts, list_of_pins, gates,
                   nets, returned, gateVars>>

\* A caller changes the power rails: ic.pwr = p; ic.gnd = g
SetPower(p, g) ==
    /\ exists
    /\ pwr' = p
    /\ gnd' = g
    /\ call' = [op |-> "set_power", a1 |-> "-", a2 |-> "-"]
    /\ result' = "ok"
    /\ UNCHANGED <<insts, exists, cls, number_of_terminals, gate, A, B, C, D, dicts, list_of_pins, gates,
                   nets, returned, gateVars>>

\* A caller writes a control level into the pin map before evaluating:
\* ic.list_of_pins["Pin3"] = v  (LT)  or  ic.list_of_pins["Pin5"] = v  (RBI)
WriteControl(pin, v) ==
    /\ exists
    /\ cls = "IC_7447"
    /\ dicts' = [dicts EXCEPT ![list_of_pins][pin] = v]
    /\ call' = [op |-> "write_pin", a1 |-> "-", a2 |-> "-"]
    /\ result' = "ok"
    /\ UNCHANGED <<insts, exists, cls, number_of_terminals, gate, pwr, gnd, A, B, C, D, list_of_pins,
                   gates, nets, returned, gateVars>>

---------------------------------------------------------------------------
(* IC.output and the IC_7400 quad NAND of ttl_74xx_ics/ttl_74xx_ic.py *)

AttributeError == "AttributeError"
Terminals7400 == 14

\* IC.output on rails p, g and self.gate = gt:
\*   self.gate.output() if self.pwr and not self.gnd, else False.
\* Reading self.gate while nothing has assigned it raises AttributeError.
IC_output(p, g, gt) ==
    IF Powered(p, g)
    THEN (IF gt = NoGate THEN AttributeError ELSE output(gt))
    ELSE LOW

\* IC_7400_QUAD_2_INPUT_NAND(pwr, gnd, 14)
New7400(p, g) ==
    LET ok == typechecker(p, g)
    IN  /\ exists = ok
        /\ cls = "IC_7400"
        /\ number_of_terminals = Terminals7400
        /\ gate = NoGate
        /\ pwr = IF ok THEN p ELSE UNSET
        /\ gnd = IF ok THEN g ELSE UNSET
        /\ A = UNSET /\ B = UNSET /\ C = UNSET /\ D = UNSET
        /\ dicts = IF ok THEN <<terminal_identify(Terminals7400)>> ELSE <<>>
        /\ list_of_pins = IF ok THEN 1 ELSE 0
        /\ gates = NoGates
        /\ nets = NoNets
        /\ call = [op |-> "new", a1 |-> p, a2 |-> g]
        /\ result = IF ok THEN "ok" ELSE TypeError
        /\ returned = {}

\* IC_7400.inputs: the hardcoded input pins
inputs7400(m) ==
    [m EXCEPT !["Pin1"] = HIGH, !["Pin2"] = LOW, !["Pin5"] = LOW, !["Pin6"] = HIGH,
              !["Pin8"] = LOW, !["Pin9"] = HIGH, !["Pin12"] = HIGH, !["Pin13"] = HIGH]

\* self.gate.termi1 = t1; self.gate.termi2 = t2 (in either order)
Rewire(gt, t1, t2) == [gt EXCEPT !.termi1 = t1, !.termi2 = t2]

\* IC_7400.process: one NAND gate re-wired to each pin pair in turn, each
\* output pin written with self.output(); the final pin map and gate.
process7400_eval(m, p, g) ==
    LET g0 == NewGate("NAndGate", LOW, LOW)
        m0 == inputs7400(m)
        g1 == Rewire(g0, m0["Pin1"], m0["Pin2"])
        m1 == [m0 EXCEPT !["Pin3"] = IC_output(p, g, g1)]
        g2 == Rewire(g1, m1["Pin6"], m1["Pin5"])
        m2 == [m1 EXCEPT !["Pin4"] = IC_output(p, g, g2), !["Pin7"] = p]
        g3 == Rewire(g2, m2["Pin9"], m2["Pin8"])
        m3 == [m2 EXCEPT !["Pin10"] = IC_output(p, g, g3)]
        g4 == Rewire(g3, m3["Pin13"], m3["Pin12"])
        m4 == [m3 EXCEPT !["Pin11"] = IC_output(p, g, g4), !["Pin14"] = g]
    IN  [pins |-> m4, gate |-> g4]

process7400 ==
    /\ exists
    /\ cls = "IC_7400"
    /\ LET r == process7400_eval(dicts[list_of_pins], pwr, gnd)
       IN  /\ dicts' = [dicts EXCEPT ![list_of_pins] = r.pins]
           /\ gate' = r.gate
    /\ is_single_input_gate' = check_type_flag(LOW)
    /\ call' = [op |-> "process", a1 |-> "-", a2 |-> "-"]
    /\ result' = "ok"
    /\ returned' = returned \cup {list_of_pins}
    /\ UNCHANGED <<insts, exists, cls, number_of_terminals, pwr, gnd, A, B, C, D, list_of_pins, gates, nets,
                   chosen_gate, gate_out, gate_call>>

\* ic.output() on an instance of a class that inherits IC.output (IC_7447
\* does) or forwards to it (IC_7400 does); result is the returned level.
ICOutput ==
    /\ exists
    /\ call' = [op |-> "output", a1 |-> "-", a2 |-> "-"]
    /\ result' = IC_output(pwr, gnd, gate)
    /\ is_single_input_gate' = IF Powered(pwr, gnd) /\ gate # NoGate
                               THEN output_flag(gate)
                               ELSE is_single_input_gate
    /\ UNCHANGED <<insts, exists, cls, number_of_terminals, gate, pwr, gnd, A, B, C, D, dicts, list_of_pins,
                   gates, nets, returned, chosen_gate, gate_out, gate_call>>

\* An IC of either class with Boolean rails; its callers evaluate it, ask
\* for its output and change its rails.
InitTTL ==
    /\ InitGateBench
    /\ insts = <<>>
    /\ \/ \E p \in Bool, g \in Bool : New7400(p, g)
       \/ \E p \in Bool, g \in Bool, d \in BCDValues, c \in BCDValues,
             b \in BCDValues, a \in BCDValues : New(p, g, d, c, b, a)

NextTTL ==
    \/ process7400
    \/ process
    \/ ICOutput
    \/ \E p \in Bool, g \in Bool : SetPower(p, g)

SpecTTL == InitTTL /\ [][NextTTL]_vars

---------------------------------------------------------------------------
(* terminal_identify called again on a live instance *)

\* the pin counts a decoder is constructed with
TerminalCounts == {14, 16, 20}

\* IC.terminal_identify(ic) on an existing instance
TerminalIdentify ==
    /\ exists
    /\ dicts' = [dicts EXCEPT
                    ![list_of_pins] = terminal_identify_on(@, number_of_terminals)]
    /\ call' = [op |-> "terminal_identify", a1 |-> "-", a2 |-> "-"]
    /\ result' = "ok"
    /\ UNCHANGED <<insts, exists, cls, number_of_terminals, gate, pwr, gnd, A, B, C, D,
                   list_of_pins, gates, nets, returned, gateVars>>

InitPins ==
    /\ InitGateBench
    /\ insts = <<>>
    /\ \E n \in TerminalCounts, p \in Bool, g \in Bool, d \in BCDValues,
          c \in BCDValues, b \in BCDValues, a \in BCDValues :
            NewN(n, p, g, d, c, b, a)

NextPins ==
    \/ process
    \/ TerminalIdentify

SpecPins == InitPins /\ [][NextPins]_vars

---------------------------------------------------------------------------
\* A decoder constructed with Boolean rails, then used by its callers
Init ==
    /\ InitGateBench
    /\ insts = <<>>
    /\ \E p \in Bool, g \in Bool, d \in BCDValues, c \in BCDValues,
          b \in BCDValues, a \in BCDValues : New(p, g, d, c, b, a)

Next ==
    \/ process
    \/ \E name \in {"A", "B", "C", "D"}, v \in BCDValues : SetInput(name, v)
    \/ \E p \in Bool, g \in Bool : SetPower(p, g)
    \/ \E pin \in {"Pin3", "Pin5"}, v \in Bool : WriteControl(pin, v)

Spec == Init /\ [][Next]_vars

\* Construction with any rail values, then evaluation
InitNew ==
    /\ InitGateBench
    /\ insts = <<>>
    /\ \E p \in PyVal, g \in PyVal, d \in BCDValues, c \in BCDValues,
          b \in BCDValues, a \in BCDValues : New(p, g, d, c, b, a)

NextNew == process

SpecNew == InitNew /\ [][NextNew]_vars

\* The netlist under every pair of control levels inputs() could write
InitNet ==
    /\ InitGateBench
    /\ insts = <<>>
    /\ \E p \in Bool, g \in Bool, d \in BCDValues, c \in BCDValues,
          b \in BCDValues, a \in BCDValues : New(p, g, d, c, b, a)

NextNet == \E lt \in Bool, rbi \in Bool : process_with(lt, rbi)

SpecNet == InitNet /\ [][NextNet]_vars

\* A decoder constructed with any values as BCD inputs, then evaluated
InitBCD ==
    /\ InitGateBench
    /\ insts = <<>>
    /\ \E p \in Bool, g \in Bool, d \in PyVal, c \in PyVal,
          b \in PyVal, a \in PyVal : New(p, g, d, c, b, a)

NextBCD == process

SpecBCD == InitBCD /\ [][NextBCD]_vars

---------------------------------------------------------------------------
(* Two IC_7447 instances whose stages a caller interleaves:                 *)
(*   ic.interGates(); ic.inputs(); ic.setUP(); ic.outputs(); final writes   *)
(* Every gate, net and the pin dictionary are attributes of the instance;   *)
(* the only module-level name the stages write is is_single_input_gate.     *)

Instances == {1, 2}

\* IC_7447(True, False, 16, d, c, b, a), about to be evaluated
NewInstance(d, c, b, a) ==
    [A |-> a, B |-> b, C |-> c, D |-> d,
     pc    |-> "interGates",
     mixed |-> FALSE,
     pins  |-> terminal_identify(Terminals),
     gates |-> NoGates,
     nets  |-> NoNets]

\* The attributes a stage of instance i leaves behind, had the gate
\* attributes been held by the class: every instance sees them.
Commit_class_gates(all, i, s) ==
    [j \in DOMAIN all |->
        IF j = i
        THEN [all[j] EXCEPT !.pins = s.pins, !.gates = s.gates, !.nets = s.nets]
        ELSE [all[j] EXCEPT !.gates = s.gates]]

\* The attributes a stage of instance i leaves behind: self.<gate>,
\* self.line<X> and self.list_of_pins of that instance only.
Commit(all, i, s) ==
    [all EXCEPT ![i] = [@ EXCEPT !.pins = s.pins, !.gates = s.gates, !.nets = s.nets]]

\* the evaluation state a stage of instance i starts from
StageState(i) ==
    [pins  |-> insts[i].pins,
     gates |-> insts[i].gates,
     nets  |-> insts[i].nets,
     flag  |-> is_single_input_gate,
     err   |-> FALSE]

\* another instance is in the middle of its evaluation
OtherMidway(i) ==
    \E j \in Instances \ {i} : insts[j].pc \notin {"interGates", "done"}

\* Instance i runs one stage: from program point `from` it executes `s`
\* (the evaluation state the stage produces) and moves to `to`.
Stage(i, from, to, s) ==
    /\ insts # <<>>
    /\ insts[i].pc = from
    /\ ~s.err
    /\ insts' = [Commit(insts, i, s) EXCEPT
                    ![i].pc = to,
                    ![i].mixed = insts[i].mixed \/ OtherMidway(i)]
    /\ is_single_input_gate' = s.flag
    /\ UNCHANGED <<exists, cls, number_of_terminals, gate, pwr, gnd, A, B, C, D,
                   dicts, list_of_pins, gates, nets, call, result, returned,
                   chosen_gate, gate_out, gate_call>>

StageInterGates(i) ==
    Stage(i, "interGates", "inputs",
          [StageState(i) EXCEPT !.gates = interGates, !.flag = interGates_flag])

StageInputs(i) ==
    Stage(i, "inputs", "setUP",
          RunAll(StageState(i), insts[i], inputs_stmts(LT_level, RBI_level)))

StageSetUP(i) ==
    Stage(i, "setUP", "outputs", RunAll(StageState(i), insts[i], setUP_stmts))

StageOutputs(i) ==
    Stage(i, "outputs", "drive", RunAll(StageState(i), insts[i], outputs_stmts))

StageDrive(i) ==
    Stage(i, "drive", "done", RunAll(StageState(i), insts[i], drive_stmts))

InitTwo ==
    /\ InitGateBench
    /\ New(HIGH, LOW, LOW, LOW, LOW, LOW)
    /\ \E f \in [Instances -> [A : BCDValues, B : BCDValues,
                               C : BCDValues, D : BCDValues]] :
          insts = [i \in Instances |-> NewInstance(f[i].D, f[i].C, f[i].B, f[i].A)]

NextTwo ==
    \E i \in Instances :
        \/ StageInterGates(i)
        \/ StageInputs(i)
        \/ StageSetUP(i)
        \/ StageOutputs(i)
        \/ StageDrive(i)

SpecTwo == InitTwo /\ [][NextTwo]_vars

\* The terminal-expansion cascades on their own: a decoder whose gates
\* interGates() has just created and whose ten nets hold any levels; the
\* part of setUP() that fans the nets out and connects the staged
\* reductions runs, then outputs().
IsFan(st) == st.op = "fan"

\* IC_7447.setUP: the assignments of a net to a gate terminal
setUP_fan_out == SelectSeq(setUP_stmts, IsFan)

\* IC_7447.setUP: the sub outputs
setUP_sub_outputs == SubSeq(setUP_lineCJ, Len(setUP_lineCJ) - 11, Len(setUP_lineCJ))

CascadeState ==
    [pins |-> dicts[list_of_pins], gates |-> gates, nets |-> nets,
     flag |-> is_single_input_gate, err |-> FALSE]

RunStage(from, to, stmts) ==
    LET s == RunAll(CascadeState, Self, stmts)
    IN  /\ call.op = from
        /\ ~s.err
        /\ gates' = s.gates
        /\ is_single_input_gate' = s.flag
        /\ call' = [op |-> to, a1 |-> "-", a2 |-> "-"]
        /\ UNCHANGED <<insts, exists, cls, number_of_terminals, gate, pwr, gnd, A, B, C, D,
                       dicts, list_of_pins, nets, result, returned,
                       chosen_gate, gate_out, gate_call>>

FanOutAndSubOutputs == RunStage("interGates", "setUP", setUP_fan_out \o setUP_sub_outputs)

Outputs == RunStage("setUP", "outputs", outputs_stmts)

InitCascade ==
    /\ InitGateBench
    /\ insts = <<>>
    /\ exists = TRUE
    /\ cls = "IC_7447"
    /\ number_of_terminals = Terminals
    /\ gate = NoGate
    /\ pwr = HIGH
    /\ gnd = LOW
    /\ A = LOW
    /\ B = LOW
    /\ C = LOW
    /\ D = LOW
    /\ dicts = <<terminal_identify(Terminals)>>
    /\ list_of_pins = 1
    /\ gates = interGates
    /\ nets \in [NetNames -> Bool]
    /\ call = [op |-> "interGates", a1 |-> "-", a2 |-> "-"]
    /\ result = "ok"
    /\ returned = {}

NextCascade == FanOutAndSubOutputs \/ Outputs

SpecCascade == InitCascade /\ [][NextCascade]_vars

\* The gate bench alone, next to an idle decoder
InitGate ==
    /\ InitGateBench
    /\ insts = <<>>
    /\ New(HIGH, LOW, LOW, LOW, LOW, LOW)

SpecGate == InitGate /\ [][NextGate]_vars

---------------------------------------------------------------------------
(* Properties *)

Pins == dicts[list_of_pins]

\* segment pins a, b, c, d, e, f, g
SegmentPins == <<"Pin13", "Pin12", "Pin11", "Pin10", "Pin9", "Pin15", "Pin14">>

\* the levels of the seven segment pins of a pin map, a..g
Segments(m) == [i \in 1..7 |-> m[SegmentPins[i]]]

\* the BCD pins D, C, B, A of a pin map
BCDPins(m) == <<m["Pin6"], m["Pin2"], m["Pin1"], m["Pin7"]>>

\* The canonical truth table of the two-input gates, on Booleans
Canonical(kind, a, b) ==
    CASE kind = "AndGate"  -> a /\ b
      [] kind = "OrGate"   -> a \/ b
      [] kind = "NOrGate"  -> ~(a \/ b)
      [] kind = "NAndGate" -> ~(a /\ b)
      [] kind = "XNOrGate" -> (a <=> b)

\* C1: for every pair of Boolean terminal values (a, b), output() of AND, OR,
\* NOR, NAND and XNOR returns the canonical truth-table value.
C1_TwoInputTruthTables ==
    (/\ gate_call.op = "output"
     /\ gate_call.kind \in {"AndGate", "OrGate", "NOrGate", "NAndGate", "XNOrGate"}
     /\ IsBool(gate_call.termi1)
     /\ IsBool(gate_call.termi2))
    => gate_out = FromBool(Canonical(gate_call.kind,
                                     gate_call.termi1 = HIGH,
                                     gate_call.termi2 = HIGH))

\* C1 witness: a NOR gate with both terminals LOW has been evaluated to HIGH.
C1_Witness ==
    /\ gate_call.op = "output"
    /\ gate_call.kind = "NOrGate"
    /\ gate_call.termi1 = LOW
    /\ gate_call.termi2 = LOW
    /\ gate_out = HIGH

BlankingAsserted(lt, rbi) == lt = HIGH /\ rbi = LOW

\* C3: when the caller has asserted blanking on the control pins, a powered
\* process() returns all seven segment pins HIGH (OFF), whatever the BCD value.
C3_BlankingForcesSegmentsOff ==
    [][(/\ call'.op = "process"
        /\ result' = "ok"
        /\ Powered(pwr, gnd)
        /\ BlankingAsserted(Pins["Pin3"], Pins["Pin5"]))
       => \A i \in 1..7 : dicts'[list_of_pins'][SegmentPins[i]] = HIGH]_vars

\* C4: process() called while pwr is false or gnd is true returns a pin map
\* whose entries are all LOW, whatever was evaluated before. (The two control
\* pins, which a caller may have written itself, are left out: a violation
\* can only come from an earlier evaluation.)
C4_UnpoweredReturnsAllLow ==
    (call.op = "process" /\ ~Powered(pwr, gnd))
    => \A k \in DOMAIN Pins \ {"Pin3", "Pin5"} : Pins[k] = LOW

\* C5: constructing an IC with a non-Boolean pwr, or with a non-Boolean gnd,
\* raises TypeError and produces no object.
C5_NonBooleanRailsRejected ==
    (call.op = "new" /\ (~IsBool(call.a1) \/ ~IsBool(call.a2)))
    => (~exists /\ result = TypeError)

\* a terminal the gate uses holds a non-Boolean
BadTerminal(kind, termi1, termi2) ==
    \/ ~IsBool(termi1)
    \/ kind \in TwoInputKinds /\ ~IsBool(termi2)

\* C6: for every gate variant, a non-Boolean in a terminal the gate uses is
\* rejected with TypeError at construction and at every output() call made
\* after it was assigned; output() returns a level only for Boolean terminals.
C6_NonBooleanTerminalRejected ==
    /\ (gate_call.op = "new"
        /\ BadTerminal(gate_call.kind, gate_call.termi1, gate_call.termi2))
       => (gate_out = TypeError /\ chosen_gate = NoGate)
    /\ (gate_call.op = "output"
        /\ BadTerminal(gate_call.kind, gate_call.termi1, gate_call.termi2))
       => gate_out = TypeError
    /\ (gate_call.op = "output" /\ gate_out # TypeError)
       => (gate_out \in Bool
           /\ ~BadTerminal(gate_call.kind, gate_call.termi1, gate_call.termi2))

\* C6 witness: a NAND gate built with Boolean terminals, whose second
\* terminal was then assigned None, has raised TypeError from output().
C6_Witness ==
    /\ gate_call.op = "output"
    /\ chosen_gate.kind = "NAndGate"
    /\ chosen_gate.termi1 = HIGH
    /\ chosen_gate.termi2 = NONE
    /\ gate_out = TypeError

\* C7: the levels a caller wrote to Pin3 (LT) and Pin5 (RBI) before process()
\* are the levels bound to the control gates AE, BB1_2 and BC, and the two
\* pins still hold them in the returned pin map.
C7_CallerControlLevelsBound ==
    [][(call'.op = "process" /\ result' = "ok" /\ Powered(pwr, gnd))
       => /\ gates'["AE"].termi1 = Pins["Pin3"]
          /\ gates'["BB1_2"].termi1 = Pins["Pin3"]
          /\ gates'["BB1_2"].termi2 = Pins["Pin5"]
          /\ gates'["BC"].termi1 = Pins["Pin5"]
          /\ dicts'[list_of_pins']["Pin3"] = Pins["Pin3"]
          /\ dicts'[list_of_pins']["Pin5"] = Pins["Pin5"]]_vars

\* The pin map process() returns on a freshly constructed decoder with the
\* given rails and BCD inputs, after the control pins were written lt, rbi.
FreshMap(p, g, d, c, b, a, lt, rbi) ==
    LET m == [terminal_identify(Terminals) EXCEPT !["Pin3"] = lt, !["Pin5"] = rbi]
    IN  IF Powered(p, g)
        THEN Evaluate(m, NoNets, [A |-> a, B |-> b, C |-> c, D |-> d],
                      LT_level, RBI_level).pins
        ELSE m

\* C8: two process() evaluations with identical (pwr, gnd, D, C, B, A) and
\* identical control-pin levels return equal pin maps: every evaluation
\* returns what the evaluation of a fresh decoder with these values returns.
C8_Deterministic ==
    (call.op = "process" /\ result = "ok")
    => Pins = FreshMap(pwr, gnd, D, C, B, A, Pins["Pin3"], Pins["Pin5"])

\* The connections left after repeatedly removing every gate that no
\* connection leads into: empty iff the connections form no cycle.
RECURSIVE Strip(_)
Strip(E) ==
    LET roots == {e[1] : e \in E} \ {e[2] : e \in E}
    IN  IF roots = {} THEN E ELSE Strip({e \in E : e[1] \notin roots})

\* The gate-to-gate connection a statement makes: the producer whose
\* output() value is assigned, directly or through a net, and the gate
\* whose terminal receives it.
Connection(st) ==
    IF st.op = "wire" THEN {<<st.src, st.dst>>}
    ELSE IF st.op = "fan" THEN {<<NetSource[st.src], st.dst>>}
    ELSE {}

\* All connections made by a statement list
Connections(stmts) == UNION {Connection(stmts[i]) : i \in 1..Len(stmts)}

\* C9: once setUP() and outputs() have run, the wiring they made is acyclic:
\* no gate's output reaches one of its own input terminals.
C9_WiringAcyclic ==
    (call.op = "process" /\ result = "ok" /\ Powered(pwr, gnd))
    => Strip(Connections(setUP_stmts \o outputs_stmts)) = {}

\* C10: a pin map returned by process() is not changed by a later process()
\* call or input change on the same IC.
C10_ReturnedMapNeverChanges ==
    [][(call'.op \in {"process", "set_input"})
       => \A r \in returned : dicts'[r] = dicts[r]]_vars

\* some BCD input attribute holds a non-Boolean
BadBCD == ~IsBool(A) \/ ~IsBool(B) \/ ~IsBool(C) \/ ~IsBool(D)

\* C11: process() on a powered decoder with a non-Boolean BCD input raises
\* TypeError to the caller and hands out no pin map.
C11_NonBooleanBCDRaises ==
    (call.op = "process" /\ Powered(pwr, gnd) /\ BadBCD)
    => (result = TypeError /\ list_of_pins \notin returned)

\* C11 witness: a powered decoder whose input A is None has been evaluated
\* and the evaluation raised TypeError.
C11_Witness ==
    /\ call.op = "process"
    /\ Powered(pwr, gnd)
    /\ A = NONE
    /\ IsBool(B) /\ IsBool(C) /\ IsBool(D)
    /\ result = TypeError

\* C12: every entry of the pin map of an IC is a Boolean in every state the
\* IC reaches, whatever was supplied as BCD input and also after a process()
\* call that raised TypeError.
C12_PinMapBoolean ==
    exists => \A k \in DOMAIN Pins : IsBool(Pins[k])

\* C13: in any state, before or after process(), the default output()
\* returns LOW when pwr is false or gnd is true, and the current output of
\* the representative gate self.gate otherwise.
C13_DefaultOutput ==
    (call.op = "output")
    => IF Powered(pwr, gnd)
       THEN gate # NoGate /\ result = output(gate)
       ELSE result = LOW

\* C14: for every BCD code, the unused codes 1010..1111 included, a powered
\* process() completes without error and leaves a Boolean level on each of
\* the seven segment pins.
C14_EveryCodeDefined ==
    (/\ call.op = "process"
     /\ Powered(pwr, gnd)
     /\ IsBool(A) /\ IsBool(B) /\ IsBool(C) /\ IsBool(D))
    => /\ result = "ok"
       /\ list_of_pins \in returned
       /\ BCDPins(Pins) = <<D, C, B, A>>
       /\ \A i \in 1..7 : IsBool(Segments(Pins)[i])

\* C14 witness: the unused code 1111 has been evaluated on a powered decoder.
C14_Witness ==
    /\ call.op = "process"
    /\ Powered(pwr, gnd)
    /\ <<D, C, B, A>> = <<HIGH, HIGH, HIGH, HIGH>>
    /\ result = "ok"
    /\ Segments(Pins) \in [1..7 -> Bool]

\* C15: XNAND(a, b) equals NAND(a, b) on all four Boolean input pairs:
\* output 1, 1, 1, 0 for inputs 00, 01, 10, 11.
C15_XNAndIsNAnd ==
    (/\ gate_call.op = "output"
     /\ gate_call.kind = "XNAndGate"
     /\ IsBool(gate_call.termi1)
     /\ IsBool(gate_call.termi2))
    => /\ gate_out = NAndGate_output(gate_call.termi1, gate_call.termi2)
       /\ gate_out = FromBool(~(gate_call.termi1 = HIGH /\ gate_call.termi2 = HIGH))

\* C15 witness: an XNAND gate with both terminals LOW has been evaluated to
\* HIGH (the pair on which XNAND and the complement of XNOR differ).
C15_Witness ==
    /\ gate_call.op = "output"
    /\ gate_call.kind = "XNAndGate"
    /\ gate_call.termi1 = LOW
    /\ gate_call.termi2 = LOW
    /\ gate_out = HIGH

\* C16: for x in {HIGH, LOW}, NOT's output() is the negation of terminal one
\* and BUFFER's output() equals terminal one.
C16_NotAndBuffer ==
    (gate_call.op = "output" /\ IsBool(gate_call.termi1))
    => /\ gate_call.kind = "NotGate" => gate_out = FromBool(gate_call.termi1 = LOW)
       /\ gate_call.kind = "Buffer"  => gate_out = gate_call.termi1

\* C16 witness: a BUFFER with terminal one HIGH has been evaluated to HIGH.
C16_Witness ==
    /\ gate_call.op = "output"
    /\ gate_call.kind = "Buffer"
    /\ gate_call.termi1 = HIGH
    /\ gate_out = HIGH

\* C17: the value in the second terminal of a NOT or BUFFER gate never
\* changes what output() returns nor whether it raises: the outcome is
\* decided by terminal one alone.
C17_SecondTerminalUnused ==
    (gate_call.op = "output" /\ gate_call.kind \in OneInputKinds)
    => gate_out = IF ~IsBool(gate_call.termi1) THEN TypeError
                  ELSE IF gate_call.kind = "NotGate"
                       THEN FromBool(gate_call.termi1 = LOW)
                       ELSE gate_call.termi1

\* C17 witness: a NOT gate whose second terminal holds None has been
\* evaluated, and returned the negation of terminal one.
C17_Witness ==
    /\ gate_call.op = "output"
    /\ gate_call.kind = "NotGate"
    /\ gate_call.termi1 = HIGH
    /\ gate_call.termi2 = NONE
    /\ gate_out = LOW

\* What a gate of class kind owes on terminals t1, t2: TypeError on a
\* non-Boolean terminal it uses, its truth-table value otherwise.
Table(kind, t1, t2) ==
    IF BadTerminal(kind, t1, t2) THEN TypeError
    ELSE CASE kind = "NotGate"   -> FromBool(t1 = LOW)
           [] kind = "Buffer"    -> t1
           [] kind = "XNAndGate" -> FromBool(~(t1 = HIGH /\ t2 = HIGH))
           [] OTHER              -> FromBool(Canonical(kind, t1 = HIGH, t2 = HIGH))

\* C18: output() is a function of the current terminals, with no caching:
\* a second output() call right after the first returns the same outcome,
\* and the output() call that follows a terminal assignment returns the
\* value for the terminals as assigned.
C18_OutputNotCached ==
    [][/\ (gate_call.op = "output" /\ gate_call'.op = "output")
           => gate_out' = gate_out
       /\ (gate_call.op = "assign" /\ gate_call'.op = "output")
           => gate_out' = Table(gate_call.kind, gate_call.termi1, gate_call.termi2)]_vars

\* C18 witness: an OR gate was evaluated right after a terminal assignment
\* that left it with the terminals (HIGH, LOW), and returned HIGH.
C18_Witness ==
    /\ gate_call.op = "output"
    /\ gate_call.after = "assign"
    /\ gate_call.kind = "OrGate"
    /\ gate_call.termi1 = HIGH
    /\ gate_call.termi2 = LOW
    /\ gate_out = HIGH

\* the final segment drivers of segments a..g
SegmentDrivers == <<"EA", "EB", "EC", "ED", "EE", "EF", "EH">>

\* C19: after a powered process(), Pin7, Pin1, Pin2, Pin6 hold A, B, C, D;
\* Pin3 and Pin5 hold the LT and RBI levels of the evaluation, the ones bound
\* to the control gates; Pin13, Pin12, Pin11, Pin10, Pin9, Pin15, Pin14 hold
\* the outputs of the final drivers EA, EB, EC, ED, EE, EF, EH.
C19_PinMapping ==
    (call.op = "process" /\ result = "ok" /\ Powered(pwr, gnd))
    => /\ Pins["Pin7"] = A /\ Pins["Pin1"] = B
       /\ Pins["Pin2"] = C /\ Pins["Pin6"] = D
       /\ Pins["Pin3"] = LT_level /\ Pins["Pin5"] = RBI_level
       /\ gates["AE"].termi1 = Pins["Pin3"]
       /\ gates["BB1_2"].termi1 = Pins["Pin3"]
       /\ gates["BB1_2"].termi2 = Pins["Pin5"]
       /\ gates["BC"].termi1 = Pins["Pin5"]
       /\ \A i \in 1..7 : Pins[SegmentPins[i]] = output(gates[SegmentDrivers[i]])

\* C19 witness: a powered decoder has evaluated BCD 0000, for which the
\* drivers of f (EF) and g (EH) differ, and Pin15 and Pin14 show them.
C19_Witness ==
    /\ call.op = "process"
    /\ result = "ok"
    /\ Powered(pwr, gnd)
    /\ <<D, C, B, A>> = <<LOW, LOW, LOW, LOW>>
    /\ Pins["Pin15"] = LOW /\ output(gates["EF"]) = LOW
    /\ Pins["Pin14"] = HIGH /\ output(gates["EH"]) = HIGH

\* C20: terminal_identify() on an IC with terminal count N yields a pin map
\* with exactly the keys Pin1..PinN, every entry LOW, at construction and
\* whenever it is called again later.
C20_TerminalIdentifyResets ==
    (exists /\ call.op \in {"new", "terminal_identify"})
    => /\ DOMAIN Pins = {PinId[x] : x \in 1..number_of_terminals}
       /\ \A k \in DOMAIN Pins : Pins[k] = LOW

\* the pins of the 16-terminal package that no statement of the decoder names
UnwiredPins == {"Pin4", "Pin8", "Pin16"}

\* C21: the pins the decoder never wires (Pin4, Pin8, Pin16) are LOW in the
\* pin map after any sequence of process() calls, input changes and power
\* changes.
C21_UnwiredPinsLow ==
    exists => \A k \in UnwiredPins : k \in DOMAIN Pins /\ Pins[k] = LOW

\* C21 witness: a powered evaluation followed by an unpowered one has left
\* HIGH levels in the pin map, and the unwired pins are LOW.
C21_Witness ==
    /\ call.op = "process"
    /\ ~Powered(pwr, gnd)
    /\ Pins["Pin7"] = HIGH
    /\ Pins["Pin14"] = HIGH
    /\ \A k \in UnwiredPins : Pins[k] = LOW

\* C22: two decoder instances whose stages are interleaved in any order each
\* return the pin map they return when evaluated alone, and a stage of one
\* instance changes no gate, net or pin of the other. (is_single_input_gate
\* is the one name both write; no gate output reads it.)
C22_InstancesIsolated ==
    /\ [](\A i \in DOMAIN insts :
            insts[i].pc = "done"
            => insts[i].pins = FreshMap(HIGH, LOW, insts[i].D, insts[i].C,
                                        insts[i].B, insts[i].A, LOW, LOW))
    /\ [][\A i \in DOMAIN insts :
            insts'[i].pc # insts[i].pc
            => \A j \in DOMAIN insts \ {i} : insts'[j] = insts[j]]_vars

\* C22 witness: both instances have finished, on different BCD values, and
\* each took a stage while the other was in the middle of its evaluation.
C22_Witness ==
    /\ insts # <<>>
    /\ \A i \in Instances : insts[i].pc = "done" /\ insts[i].mixed
    /\ BCDPins(insts[1].pins) = <<LOW, LOW, LOW, HIGH>>
    /\ BCDPins(insts[2].pins) = <<HIGH, LOW, LOW, LOW>>
    /\ Segments(insts[1].pins) # Segments(insts[2].pins)

\* the segment letter of each segment pin
SegmentOf == [Pin13 |-> "a", Pin12 |-> "b", Pin11 |-> "c", Pin10 |-> "d",
              Pin9 |-> "e", Pin15 |-> "f", Pin14 |-> "g"]

\* the segments a pin map shows illuminated (LOW, active-low)
Lit(m) == {SegmentOf[k] : k \in {p \in DOMAIN SegmentOf : m[p] = LOW}}

\* the 7447 glyph of each decimal digit
Glyph == [n \in 0..9 |->
    CASE n = 0 -> {"a", "b", "c", "d", "e", "f"}
      [] n = 1 -> {"b", "c"}
      [] n = 2 -> {"a", "b", "d", "e", "g"}
      [] n = 3 -> {"a", "b", "c", "d", "g"}
      [] n = 4 -> {"b", "c", "f", "g"}
      [] n = 5 -> {"a", "c", "d", "f", "g"}
      [] n = 6 -> {"c", "d", "e", "f", "g"}
      [] n = 7 -> {"a", "b", "c"}
      [] n = 8 -> {"a", "b", "c", "d", "e", "f", "g"}
      [] n = 9 -> {"a", "b", "c", "f", "g"}]

\* the number a BCD code D C B A stands for
Weight(v, w) == IF v = HIGH THEN w ELSE 0
BCDNumber(d, c, b, a) == Weight(d, 8) + Weight(c, 4) + Weight(b, 2) + Weight(a, 1)

\* C23: a powered 16-terminal decoder evaluated through process() returns,
\* for each BCD digit 0..9, exactly the segments of the 7447 glyph LOW.
C23_DigitGlyphs ==
    (/\ call.op = "process"
     /\ result = "ok"
     /\ Powered(pwr, gnd)
     /\ BCDNumber(D, C, B, A) \in 0..9)
    => Lit(Pins) = Glyph[BCDNumber(D, C, B, A)]

\* C23 witness: the digit 5 has been evaluated and shows a, c, d, f, g.
C23_Witness ==
    /\ call.op = "process"
    /\ result = "ok"
    /\ Powered(pwr, gnd)
    /\ <<D, C, B, A>> = <<LOW, HIGH, LOW, HIGH>>
    /\ Lit(Pins) = {"a", "c", "d", "f", "g"}

\* The statements of one powered process() call, in execution order
process_stmts ==
    inputs_stmts(LT_level, RBI_level) \o setUP_stmts \o outputs_stmts \o drive_stmts

\* A statement calls output() on gate g / assigns a terminal of gate g
ReadsOutput(st, g)    == st.op \in {"wire", "net", "drive"} /\ st.src = g
WritesTerminal(st, g) == st.op \in {"bind", "wire", "fan"} /\ st.dst = g

\* The gates with a terminal assigned after their output() was first called
LateWrites(stmts) ==
    {g \in GateNames :
        \E i, j \in 1..Len(stmts) :
            i < j /\ ReadsOutput(stmts[i], g) /\ WritesTerminal(stmts[j], g)}

\* C24: within one powered process() evaluation no terminal of any gate is
\* assigned after that gate's output() has been captured into a net or into
\* another gate's terminal. Once such an evaluation has run, no gate was
\* written late, and every gate still holds the terminals its captured
\* output was computed from.
C24_WritesBeforeReads ==
    (call.op = "process" /\ result = "ok" /\ Powered(pwr, gnd))
    => /\ LateWrites(process_stmts) = {}
       /\ \A n \in NetNames : output(gates[NetSource[n]]) = nets[n]

\* The evaluation of the current inputs, at the control levels the pin map
\* shows, by a decoder whose setUP() has no reassignment of BA.termi1
WithoutFeedback ==
    EvaluateWith(terminal_identify(Terminals), NoNets, Self,
                 Pins["Pin3"], Pins["Pin5"], setUP_without_feedback)

\* C25: for all values of D, C, B, A, LT and RBI, the Pin Map a powered
\* process() returns is entry for entry the Pin Map the same evaluation
\* gives when the reassignment of BA's terminal to lineB is removed.
C25_FeedbackIsDeadCode ==
    (call.op = "process" /\ result = "ok" /\ Powered(pwr, gnd))
    => /\ ~WithoutFeedback.err
       /\ Pins = WithoutFeedback.pins

\* C25 witness: an evaluation with LT HIGH in which the reassignment changed
\* BA's terminal (it differs from the terminal BA holds without it), and
\* the two pin maps agree.
C25_Witness ==
    /\ call.op = "process"
    /\ result = "ok"
    /\ Powered(pwr, gnd)
    /\ Pins["Pin3"] = HIGH
    /\ gates["BA"].termi1 = nets["lineB"]
    /\ gates["BA"].termi1 # WithoutFeedback.gates["BA"].termi1
    /\ Pins = WithoutFeedback.pins

\* C26: whatever the instance went through before (evaluations, input
\* changes, power changes, control-pin writes), every process() step on a
\* powered decoder leaves the Pin Map a freshly constructed decoder with the
\* same current inputs returns: nothing of an earlier evaluation survives.
C26_NoStateAcrossCalls ==
    [][(call'.op = "process" /\ result' = "ok" /\ Powered(pwr', gnd'))
       => Pins' = FreshMap(pwr', gnd', D', C', B', A', LOW, LOW)]_vars

\* C26 witness: a powered decoder that has been evaluated and whose input was
\* changed afterwards: its gates, nets and segment pins still hold the
\* earlier evaluation, which differs from what a fresh decoder shows; the
\* next process() starts from here.
C26_Witness ==
    /\ exists
    /\ Powered(pwr, gnd)
    /\ call.op = "set_input"
    /\ 1 \in returned
    /\ gates # NoGates
    /\ nets # NoNets
    /\ gates["AA"].termi1 # A
    /\ Segments(Pins) # Segments(FreshMap(pwr, gnd, D, C, B, A, LOW, LOW))

\* C27: a process() step on a decoder with pwr false or gnd true changes no
\* entry of any pin map, creates, wires and evaluates no gate (the gates, the
\* nets and the flag check_type sets stay as they were), and returns the
\* instance's own map, which is entry for entry what it was before the call.
C27_UnpoweredChangesNothing ==
    [][(call'.op = "process" /\ exists /\ ~Powered(pwr, gnd))
       => /\ dicts' = dicts
          /\ list_of_pins' = list_of_pins
          /\ gates' = gates
          /\ nets' = nets
          /\ is_single_input_gate' = is_single_input_gate
          /\ result' = "ok"
          /\ list_of_pins \in returned']_vars

\* C27 witness: an unpowered process() has returned on a decoder that was
\* evaluated earlier and whose input A changed since: the map still shows
\* the old input level and lit segments of the old glyph, and the gates of
\* the earlier evaluation are still there.
C27_Witness ==
    /\ call.op = "process"
    /\ result = "ok"
    /\ ~Powered(pwr, gnd)
    /\ list_of_pins \in returned
    /\ gates # NoGates
    /\ Pins["Pin7"] # A
    /\ Lit(Pins) \notin {{}, {"a", "b", "c", "d", "e", "f", "g"}}

\* The opposite logic level
Opposite(v) == IF v = HIGH THEN LOW ELSE HIGH

\* The evaluation of the current inputs at the LT level the pin map shows
\* and the opposite RBI level
WithRBIFlipped ==
    Evaluate(terminal_identify(Terminals), NoNets, Self,
             Pins["Pin3"], Opposite(Pins["Pin5"]))

\* C28: for every BCD value and every LT level, the seven segment levels
\* the netlist computes with RBI LOW and with RBI HIGH are identical.
C28_SegmentsIgnoreRBI ==
    (call.op = "process" /\ result = "ok" /\ Powered(pwr, gnd))
    => /\ ~WithRBIFlipped.err
       /\ WithRBIFlipped.pins["Pin5"] # Pins["Pin5"]
       /\ Segments(WithRBIFlipped.pins) = Segments(Pins)

\* C28 witness: the code 0000 evaluated with LT LOW and RBI HIGH shows the
\* glyph of 0, as it does with RBI LOW.
C28_Witness ==
    /\ call.op = "process"
    /\ result = "ok"
    /\ Powered(pwr, gnd)
    /\ <<D, C, B, A>> = <<LOW, LOW, LOW, LOW>>
    /\ Pins["Pin3"] = LOW
    /\ Pins["Pin5"] = HIGH
    /\ WithRBIFlipped.pins["Pin5"] = LOW
    /\ Lit(Pins) = Glyph[0]
    /\ Lit(WithRBIFlipped.pins) = Glyph[0]

\* NOR of a set of levels: HIGH iff none of them is HIGH
NOrOfAll(levels) == IF HIGH \in levels THEN LOW ELSE HIGH

\* The six terminals the cascade BB1_2, BB3, BB4, BB5, BB takes in
BlankingTerminals ==
    {gates["BB1_2"].termi1, gates["BB1_2"].termi2,
     gates["BB3"].termi2, gates["BB4"].termi2,
     gates["BB5"].termi2, gates["BB"].termi2}

AndOfAll(levels) == IF LOW \in levels THEN LOW ELSE HIGH
OrOfAll(levels)  == IF HIGH \in levels THEN HIGH ELSE LOW

\* The nets fanned into the stages of each cascade of AND gates, by the
\* cascade's last gate
AndCascades ==
    [DC |-> {"lineJ", "lineI", "lineH", "lineG"},
     DE |-> {"lineF", "lineH", "lineG"},
     DF |-> {"lineF", "lineC", "lineE"},
     DI |-> {"lineI", "lineC", "lineE"},
     DJ |-> {"lineI", "lineH", "lineG"},
     DK |-> {"lineF", "lineH", "lineE"},
     DL |-> {"lineF", "lineC", "lineG"},
     DW |-> {"lineJ", "lineI", "lineG"},
     DX |-> {"lineF", "lineC", "lineG"},
     DY |-> {"lineA", "lineJ", "lineI", "lineH"}]

\* The pre-drivers wired into the stages of each cascade of OR gates
OrCascades ==
    [EA |-> {"DC", "DB", "DA"},
     EB |-> {"DF", "DE", "DD"},
     ED |-> {"DL", "DK", "DJ"},
     EF |-> {"DW", "DV", "DQ"}]

=============================================================================
